---- MODULE Spec2Model ----
(***************************************************************************)
(* godocdown: the command that loads the documentation of one Go package   *)
(* directory and renders it as Markdown (src/godocdown/main.go and         *)
(* src/godocdown/render.go).                                               *)
(*                                                                         *)
(* Strings are sequences of one-character strings.  Where the program      *)
(* writes a literal of a format string, the literal is kept as one element *)
(* of the sequence (for instance the three backquotes of a fence).         *)
(***************************************************************************)
EXTENDS Integers, Sequences, FiniteSets, TLC

VARIABLES
    pc,             \* position in main / in the function under study
    flags,          \* the flag_* variables of main.go
    RenderStyle,    \* the process-wide Style value
    target,         \* main: flag.Arg(0), "." once defaulted
    fallbackUsage,  \* main: no target was given
    absPath,        \* loadDocument: the target directory, as path elements
    importPath,     \* loadDocument: the import path
    pkgSet,         \* loadDocument: packages of parser.ParseDir not yet visited
    parsed,         \* the packages parser.ParseDir returned
    isCommand,      \* loadDocument: local of the selection block
    name,           \* loadDocument: local of the selection block
    pkg,            \* loadDocument: local of the selection block
    testFiles,      \* loadDocument: local of the selection block
    document,       \* main: the *_document, or Nil
    err,            \* main: the error loadDocument returned, or NoError
    tplFiles,       \* the template files findTemplate saw in the target directory
    tpl,            \* main: the template loadTemplate returned, or NoTemplate
    buffer,         \* main: the bytes.Buffer, one element per Fprintf
    emitted,        \* main: the call that filled the buffer, "EmitTo" or "Execute"
    stdout,         \* what was printed on standard output
    file,           \* the content of the -output file, NoFile if not created
    failure,        \* the failures met during the run
    exitCode,       \* the exit status of the process, Running before it ends
    arg,            \* argument of the pure function under study
    ret             \* its result

vars == <<pc, flags, RenderStyle, target, fallbackUsage, absPath, importPath,
          pkgSet, parsed, isCommand, name, pkg, testFiles, document, err,
          tplFiles, tpl, buffer, emitted, stdout, file, failure, exitCode,
          arg, ret>>

(***************************************************************************)
(* Bounds of the model.                                                    *)
(***************************************************************************)
MaxLen == 4        \* longest synopsis text given to headifySynopsis
MaxName == 4       \* longest example name given to exampleNames
MaxPkgs == 3       \* most packages parser.ParseDir finds in one directory
MaxPartial == 1    \* most Fprintf chunks a failing write leaves in the file

Nil == [op |-> "nil"]
NoError == "nil"
NoTemplate == ""
NoFile == <<"<no file>">>
NoTestFiles == << >>
Running == -1

Min(S) == CHOOSE x \in S : \A y \in S : x <= y
Max(S) == CHOOSE x \in S : \A y \in S : x >= y

SeqsUpTo(S, n) == UNION {[1..k -> S] : k \in 0..n}

RECURSIVE Concat(_)
Concat(ss) == IF ss = <<>> THEN <<>> ELSE Head(ss) \o Concat(Tail(ss))

Contains(s, c) == \E i \in DOMAIN s : s[i] = c

(***************************************************************************)
(* Regular expressions (package regexp), as far as main.go uses them.      *)
(* An expression is a tree; Ends(re, s, P) is the set of positions where a  *)
(* match of re that starts at a position of P can end (positions count the  *)
(* characters before them, 0..Len(s)).  "bol" and "eol" are ^ and $ under   *)
(* the (?m) flag.                                                           *)
(***************************************************************************)
Cls(S) == [op |-> "cls", set |-> S]
NotCls(S) == [op |-> "ncls", set |-> S]
Bol == [op |-> "bol"]
Eol == [op |-> "eol"]
Cat(a, b) == [op |-> "cat", a |-> a, b |-> b]
Alt(a, b) == [op |-> "alt", a |-> a, b |-> b]
Star(a) == [op |-> "star", a |-> a]
Plus(a) == [op |-> "plus", a |-> a]

RECURSIVE Ends(_, _, _), StarEnds(_, _, _)
Ends(re, s, P) ==
    CASE re.op = "cls"  -> {p + 1 : p \in {q \in P : q < Len(s) /\ s[q + 1] \in re.set}}
      [] re.op = "ncls" -> {p + 1 : p \in {q \in P : q < Len(s) /\ s[q + 1] \notin re.set}}
      [] re.op = "bol"  -> {p \in P : p = 0 \/ s[p] = "\n"}
      [] re.op = "eol"  -> {p \in P : p = Len(s) \/ s[p + 1] = "\n"}
      [] re.op = "cat"  -> Ends(re.b, s, Ends(re.a, s, P))
      [] re.op = "alt"  -> Ends(re.a, s, P) \cup Ends(re.b, s, P)
      [] re.op = "star" -> StarEnds(re.a, s, P)
      [] re.op = "plus" -> StarEnds(re.a, s, Ends(re.a, s, P))
StarEnds(a, s, P) ==
    IF Ends(a, s, P) \subseteq P THEN P ELSE StarEnds(a, s, P \cup Ends(a, s, P))

\* The successive non-overlapping matches of re in s, leftmost first, each
\* <<start, end>>.  Every repetition in the expressions of main.go is greedy
\* and their alternatives end at the same $, so the match at a start
\* position is the longest one.
RECURSIVE FindAllFrom(_, _, _)
\* the match from p to e, then the matches after it
matchThenRest(re, s, p, e) ==
    <<<<p, e>>>> \o FindAllFrom(re, s, IF e > p THEN e ELSE e + 1)
\* the matches, `starts` being the positions where one can start
matchesAmong(re, s, starts) ==
    IF starts = {} THEN <<>>
    ELSE matchThenRest(re, s, Min(starts), Max(Ends(re, s, {Min(starts)})))
FindAllFrom(re, s, i) ==
    matchesAmong(re, s, {p \in i..Len(s) : Ends(re, s, {p}) # {}})
FindAll(re, s) == FindAllFrom(re, s, 0)

Upper == {"A", "B", "C", "D", "E", "F", "G", "H", "I", "J", "K", "L", "M",
          "N", "O", "P", "Q", "R", "S", "T", "U", "V", "W", "X", "Y", "Z"}
Lower == {"a", "b", "c", "d", "e", "f", "g", "h", "i", "j", "k", "l", "m",
          "n", "o", "p", "q", "r", "s", "t", "u", "v", "w", "x", "y", "z"}
Digit == {"0", "1", "2", "3", "4", "5", "6", "7", "8", "9"}
WordChar == Upper \cup Lower \cup Digit \cup {"_", "-"}
Blank == {" ", "\t"}

\* [A-Z][A-Za-z0-9_-]*
CapWord == Cat(Cls(Upper), Star(Cls(WordChar)))
\* [A-Za-z0-9_-]+
AnyWord == Plus(Cls(WordChar))
\* first(?:[ \t]+word)*
Words(word) == Cat(word, Star(Cat(Plus(Cls(Blank)), word)))

synopsisHeading1Word_Regexp == Cat(Bol, Cat(AnyWord, Eol))
synopsisHeadingTitleCase_Unanchored == Cat(Bol, Words(CapWord))
synopsisHeadingTitleCase_Regexp == Cat(Bol, Cat(Words(CapWord), Eol))
synopsisHeadingTitle_Regexp == Cat(Bol, Cat(Words(AnyWord), Eol))
synopsisHeadingTitleCase1Word_Regexp ==
    Cat(Bol, Cat(Alt(AnyWord, Words(CapWord)), Eol))

DefaultStyle ==
    [ IncludeImport |-> TRUE,
      SynopsisHeader |-> <<"#", "#", "#", "#">>,
      SynopsisHeading |-> synopsisHeadingTitleCase1Word_Regexp,
      UsageHeader |-> <<"#### Index", "\n">>,
      ConstantHeader |-> <<"#", "#", "#", "#">>,
      VariableHeader |-> <<"#", "#", "#", "#">>,
      FunctionHeader |-> <<"#", "#", "#", "#">>,
      TypeHeader |-> <<"#", "#", "#", "#">>,
      TypeFunctionHeader |-> <<"#", "#", "#", "#">>,
      IncludeSignature |-> FALSE ]

DefaultFlags ==
    [ signature |-> FALSE, plain |-> FALSE, heading |-> "TitleCase1Word",
      template |-> "", noTemplate |-> FALSE, noFuncs |-> FALSE, output |-> "" ]

\* main: the switch on *flag_heading; a value it does not list leaves the
\* style as it was.
headingSwitch(heading, current) ==
    CASE heading = "1Word" -> synopsisHeading1Word_Regexp
      [] heading = "TitleCase" -> synopsisHeadingTitleCase_Regexp
      [] heading = "Title" -> synopsisHeadingTitle_Regexp
      [] heading = "TitleCase1Word" -> synopsisHeadingTitleCase1Word_Regexp
      [] heading \in {"", "-"} -> Nil
      [] OTHER -> current

\* regexp.ReplaceAllStringFunc(target, fn) with fn(heading) =
\* Sprintf("%s %s", header, heading), over the matches ms of the expression.
RECURSIVE prefixMatches(_, _, _, _)
prefixMatches(s, ms, from, header) ==
    IF ms = <<>> THEN SubSeq(s, from + 1, Len(s))
    ELSE LET m == Head(ms)
         IN  SubSeq(s, from + 1, m[1]) \o header \o <<" ">>
               \o SubSeq(s, m[1] + 1, m[2])
               \o prefixMatches(s, Tail(ms), m[2], header)

headifySynopsis(text) ==
    LET detect == RenderStyle.SynopsisHeading
    IN  IF detect = Nil THEN text
        ELSE prefixMatches(text, FindAll(detect, text), 0, RenderStyle.SynopsisHeader)

\* strings.SplitN(s, sep, 2)
SplitN2(s, sep) ==
    IF ~Contains(s, sep) THEN <<s>>
    ELSE LET i == Min({j \in DOMAIN s : s[j] = sep})
         IN  <<SubSeq(s, 1, i - 1), SubSeq(s, i + 1, Len(s))>>

\* strings.Replace(s, old, new, -1) for one-character old and new
ReplaceAllChar(s, old, new) == [i \in DOMAIN s |-> IF s[i] = old THEN new ELSE s[i]]

\* strings.Replace(s, old, new, 1)
ReplaceFirstChar(s, old, new) ==
    IF ~Contains(s, old) THEN s
    ELSE LET i == Min({j \in DOMAIN s : s[j] = old})
         IN  [s EXCEPT ![i] = new]

exampleNames_ReplaceFirst(n) ==
    LET comps == SplitN2(n, "_")
    IN  [ base |-> comps[1],
          sub |-> IF Len(comps) > 1
                  THEN <<" ", "(">> \o ReplaceFirstChar(comps[2], "_", " ") \o <<")">>
                  ELSE <<>> ]

exampleNames(n) ==
    LET comps == SplitN2(n, "_")
    IN  [ base |-> comps[1],
          sub |-> IF Len(comps) > 1
                  THEN <<" ", "(">> \o ReplaceAllChar(comps[2], "_", " ") \o <<")">>
                  ELSE <<>> ]


(***************************************************************************)
(* Text utilities of main.go.                                              *)
(***************************************************************************)
\* regexp.ReplaceAllString(s, repl) over the matches ms
RECURSIVE replaceMatches(_, _, _, _)
replaceMatches(s, ms, from, repl) ==
    IF ms = <<>> THEN SubSeq(s, from + 1, Len(s))
    ELSE LET m == Head(ms)
         IN  SubSeq(s, from + 1, m[1]) \o repl
               \o replaceMatches(s, Tail(ms), m[2], repl)

DEL == "<7f>"    \* the character \x7f

\* (?m)[\t ]*\x7f[\t ]*$
match_7f == Cat(Star(Cls(Blank)), Cat(Cls({DEL}), Cat(Star(Cls(Blank)), Eol)))

takeOut7f(input) == replaceMatches(input, FindAll(match_7f, input), 0, <<>>)

filterText(input) == takeOut7f(input)

\* formatIndent is called by render.go and defined in no file of src/ (main.go
\* keeps it commented out): the synopsis and the doc texts are emitted verbatim.
formatIndent(text) == text

spacer(width) == [i \in 1..width |-> " "]

\* (?m)^([^\n])
indent_Regexp == Cat(Bol, NotCls({"\n"}))

\* ReplaceAllString(target, indent+"$1"): the indent goes before each match
insertBefore(text, ms, ind) ==
    replaceMatches(text, [i \in DOMAIN ms |-> <<ms[i][1], ms[i][1]>>], 0, ind)
indent(text, ind) == insertBefore(text, FindAll(indent_Regexp, text), ind)

\* github.com/lithammer/dedent
whitespaceOnly == Cat(Bol, Cat(Plus(Cls(Blank)), Eol))
leadingWhitespace == Cat(Bol, Cat(Star(Cls(Blank)), NotCls(Blank \cup {"\n"})))

IsPrefix(a, b) == Len(a) <= Len(b) /\ SubSeq(b, 1, Len(a)) = a

RECURSIVE dedentMargin(_, _, _)
dedentMargin(indents, i, margin) ==
    IF i > Len(indents) THEN margin
    ELSE IF i = 1 THEN dedentMargin(indents, 2, indents[1])
    ELSE IF IsPrefix(margin, indents[i]) THEN dedentMargin(indents, i + 1, margin)
    ELSE IF IsPrefix(indents[i], margin) THEN dedentMargin(indents, i + 1, indents[i])
    ELSE <<>>

RECURSIVE Literal(_)
Literal(s) == IF s = <<>> THEN Star(Cls({})) ELSE Cat(Cls({Head(s)}), Literal(Tail(s)))

\* the leading white space of the lines that have text
dedentIndents(text, ms) ==
    [i \in DOMAIN ms |-> SubSeq(text, ms[i][1] + 1, ms[i][2] - 1)]
\* the margin is cut from the start of every line
dedentBy(text, margin) ==
    IF margin = <<>> THEN text
    ELSE replaceMatches(text, FindAll(Cat(Bol, Literal(margin)), text), 0, <<>>)
dedentLines(text) ==
    dedentBy(text, dedentMargin(dedentIndents(text, FindAll(leadingWhitespace, text)),
                                1, <<>>))
\* the lines of white space are emptied first
Dedent(text) ==
    dedentLines(replaceMatches(text, FindAll(whitespaceOnly, text), 0, <<>>))

\* strings.Trim(s, "\n")
RECURSIVE TrimLeft(_, _)
TrimLeft(s, cut) == IF s # <<>> /\ Head(s) \in cut THEN TrimLeft(Tail(s), cut) ELSE s
RECURSIVE TrimRight(_, _)
TrimRight(s, cut) ==
    IF s # <<>> /\ s[Len(s)] \in cut THEN TrimRight(SubSeq(s, 1, Len(s) - 1), cut) ELSE s
Trim(s, cut) == TrimRight(TrimLeft(s, cut), cut)

\* strings.TrimSpace
Space == {" ", "\t", "\n", "\r"}
TrimSpace(s) == Trim(s, Space)

\* a run-time panic (index or slice bounds out of range)
Panic == <<"<panic>">>

\* the literal of three backquotes that opens or closes a fenced block
Fence == "<fence>"

indentCode(code) ==
    IF flags.plain THEN indent(code \o <<"\n">>, spacer(4))
    ELSE IF code = <<>> THEN Panic
    ELSE LET t1 == IF code[1] = "{" /\ code[Len(code)] = "}"
                   THEN SubSeq(code, 2, Len(code) - 1) ELSE code
         IN  <<Fence, "go", "\n">> \o Trim(Dedent(t1), {"\n"}) \o <<"\n", Fence>>

\* printer.Fprint of a parsed node followed by strip_Regexp; a node is kept
\* as the text the printer gives for it.
sourceOfNode(node) == node


(***************************************************************************)
(* The documentation model (go/doc) of the packages a directory can hold.  *)
(* A declaration is kept as the text the printer gives for it.             *)
(***************************************************************************)
Value(decl) == [Decl |-> <<decl>>, Doc |-> <<"d", ".">>]
Func(n, recv) ==
    [Name |-> n, Recv |-> recv, Decl |-> <<"func", " ">> \o n \o <<"()">>,
     Doc |-> <<"d", ".">>]
Type(n, consts, vs, funcs, methods) ==
    [Name |-> n, Decl |-> <<"type", " ">> \o n, Doc |-> <<"d", ".">>,
     Consts |-> consts, Vars |-> vs, Funcs |-> funcs, Methods |-> methods]
Example(n, code, out) == [Name |-> n, Code |-> code, Doc |-> <<>>, Output |-> out]

\* the body of an example as printed: with an "// Output:" comment removed
\* from before the closing brace, without one, and empty
BodyWithOutput == <<"{", "\n", "\t", "f", "(", ")", "\n", "\n", "}">>
BodyPlain == <<"{", "\n", "\t", "f", "(", ")", "\n", "}">>
BodyEmpty == <<"{", "\n", "}">>

PkgNames == {"main", "documentation", "foo", "bar", "foo_test"}

\* doc.New(parsePkg, ".", 0) once the test files are taken out
DocPackage(n) ==
    CASE n = "foo" ->
           [Name |-> n, Doc |-> <<"F", "o", "o", "\n", "d", ".">>,
            Consts |-> <<Value("const C")>>, Vars |-> <<Value("var V")>>,
            Funcs |-> <<Func(<<"F">>, <<>>)>>,
            Types |-> <<Type(<<"T">>, <<Value("const D")>>, <<Value("var W")>>,
                             <<Func(<<"N">>, <<>>)>>, <<Func(<<"M">>, <<"T">>)>>)>>]
      [] n = "bar" ->
           [Name |-> n, Doc |-> <<"B", ":">>,
            Consts |-> <<>>, Vars |-> <<>>,
            Funcs |-> <<Func(<<"G">>, <<>>)>>,
            Types |-> <<Type(<<"U">>, <<>>, <<>>, <<>>, <<Func(<<"M">>, <<"U">>)>>)>>]
      [] OTHER ->
           [Name |-> n, Doc |-> <<"D", "o", "c">>,
            Consts |-> <<>>, Vars |-> <<>>, Funcs |-> <<>>, Types |-> <<>>]

\* the files of parsePkg.Files named *_test.go, each with doc.Examples(f),
\* which go/doc returns sorted by name
TestFilesOf(n) ==
    CASE n = "foo" ->
           [f \in {"a_test.go", "b_test.go"} |->
              IF f = "a_test.go"
              THEN <<Example(<<"F", "_", "b">>, BodyWithOutput, <<"1", "\n">>),
                     Example(<<"T">>, BodyPlain, <<>>)>>
              ELSE <<Example(<<"F", "_", "a">>, BodyWithOutput, <<"2", "\n">>),
                     Example(<<"Z", "_", "x">>, BodyPlain, <<>>)>>]
      [] n = "bar" ->
           [f \in {"bar_test.go"} |-> <<Example(<<"G">>, BodyEmpty, <<>>)>>]
      [] n = "main" ->
           [f \in {"main_test.go"} |-> <<Example(<<"F">>, BodyPlain, <<>>)>>]
      [] n = "foo_test" ->
           [f \in {"x_test.go"} |-> <<Example(<<"F">>, BodyWithOutput, <<"3", "\n">>)>>]
      [] OTHER -> NoTestFiles

(***************************************************************************)
(* The renderer (render.go).  The buffer is a sequence of chunks, one per  *)
(* Fprintf call: the call that wrote it (kind), the symbol it is about     *)
(* (name), the text written, and the section of the document it is in.     *)
(***************************************************************************)
Chunk(kind, n, text) == [sec |-> "", kind |-> kind, name |-> n, text |-> text]

InSec(sec, chunks) == [i \in DOMAIN chunks |-> [chunks[i] EXCEPT !.sec = sec]]

Lookup(m, k) == IF m # Nil /\ k \in DOMAIN m THEN m[k] ELSE <<>>

renderConstantSectionTo(list) ==
    [i \in DOMAIN list |->
        Chunk("const", <<>>,
              indentCode(sourceOfNode(list[i].Decl)) \o <<"\n">>
                \o formatIndent(filterText(list[i].Doc)) \o <<"\n">>)]

renderVariableSectionTo(list) ==
    [i \in DOMAIN list |->
        Chunk("var", <<>>,
              indentCode(sourceOfNode(list[i].Decl)) \o <<"\n">>
                \o formatIndent(filterText(list[i].Doc)) \o <<"\n">>)]

renderExample(ex) ==
    LET code0 == sourceOfNode(ex.Code)
        code1 == IF code0 = <<>> THEN Panic
                 ELSE IF code0[1] = "{"
                      THEN IF 3 > Len(code0) - 3 THEN Panic
                           ELSE SubSeq(code0, 4, Len(code0) - 3)
                      ELSE code0
        code2 == IF code1 = Panic THEN Panic ELSE indentCode(Dedent(code1))
    IN  Chunk("example", ex.Name,
              <<"<a name='Example">> \o ex.Name
                \o <<"'></a><details><summary>Example</summary><p>", "\n", "\n">>
                \o formatIndent(filterText(ex.Doc)) \o <<"\n">>
                \o code2
                \o <<"\n", "\n", "Output:", "\n", Fence, "\n">>
                \o ex.Output
                \o <<Fence, "\n", "</p></details>", "\n", "\n">>)

renderExamples(exs) == [j \in DOMAIN exs |-> renderExample(exs[j])]

renderFunctionSectionTo(list, inTypeSection, examples) ==
    LET header == IF inTypeSection THEN RenderStyle.TypeFunctionHeader
                  ELSE RenderStyle.FunctionHeader
        receiver(e) == IF e.Recv # <<>> THEN <<"(">> \o e.Recv \o <<")", " ">>
                       ELSE <<" ">>
    IN  Concat([i \in DOMAIN list |->
          <<Chunk("func", list[i].Name,
                  header \o <<" ", "<a name='">> \o list[i].Name
                    \o <<"'></a>", " ", "func", " ">> \o receiver(list[i])
                    \o <<"[">> \o list[i].Name \o <<"]()", "\n", "\n">>
                    \o indentCode(sourceOfNode(list[i].Decl)) \o <<"\n">>
                    \o formatIndent(filterText(list[i].Doc)) \o <<"\n">>)>>
          \o (IF examples # Nil
              THEN renderExamples(Lookup(examples, list[i].Name))
              ELSE <<>>)])

renderTypeSectionTo(list, examples) ==
    Concat([i \in DOMAIN list |->
      <<Chunk("type", list[i].Name,
              RenderStyle.TypeHeader \o <<" ", "<a name='">> \o list[i].Name
                \o <<"'></a>", "type", " ", "[">> \o list[i].Name
                \o <<"]()", "\n", "\n">>
                \o indentCode(sourceOfNode(list[i].Decl)) \o <<"\n", "\n">>
                \o formatIndent(filterText(list[i].Doc)) \o <<"\n">>)>>
      \o renderExamples(Lookup(examples, list[i].Name))
      \o renderConstantSectionTo(list[i].Consts)
      \o renderVariableSectionTo(list[i].Vars)
      \o renderFunctionSectionTo(list[i].Funcs, TRUE, examples)
      \o renderFunctionSectionTo(list[i].Methods, TRUE, Nil)])

renderHeaderTo(d) ==
    <<Chunk("header", <<>>, <<"# ", d.Name, "\n", "--", "\n">>)>>
    \o (IF ~d.IsCommand /\ RenderStyle.IncludeImport /\ d.ImportPath # <<>>
        THEN <<Chunk("import", <<>>,
                     spacer(4) \o <<"import ", "\"">> \o d.ImportPath
                       \o <<"\"", "\n", "\n">>)>>
        ELSE <<>>)

renderSynopsisTo(d) ==
    <<Chunk("synopsis", <<>>,
            headifySynopsis(formatIndent(filterText(d.pkg.Doc))) \o <<"\n">>)>>

renderFunctionIndexTo_DeclTarget(list, inType) ==
    [i \in DOMAIN list |->
        Chunk("indexFunc", list[i].Name,
              (IF inType THEN <<"    ">> ELSE <<>>) \o <<" - [">>
                \o sourceOfNode(list[i].Decl) \o <<"](#">> \o sourceOfNode(list[i].Decl)
                \o <<")", "\n">>)]

renderFunctionIndexTo(list, inType) ==
    [i \in DOMAIN list |->
        Chunk("indexFunc", list[i].Name,
              (IF inType THEN <<"    ">> ELSE <<>>) \o <<" - [">>
                \o sourceOfNode(list[i].Decl) \o <<"](#">> \o list[i].Name
                \o <<")", "\n">>)]

renderTypeIndexTo(list) ==
    Concat([i \in DOMAIN list |->
      <<Chunk("indexType", list[i].Name,
              <<" - [type ">> \o list[i].Name \o <<"](#">> \o list[i].Name
                \o <<")", "\n">>)>>
      \o renderFunctionIndexTo(list[i].Funcs, TRUE)])

renderIndex(d) ==
    renderFunctionIndexTo(d.pkg.Funcs, FALSE)
    \o renderTypeIndexTo(d.pkg.Types)
    \o <<Chunk("indexEnd", <<>>, <<"\n">>)>>

groupExamples_Overwrite(d, order) ==
    LET all == Concat([i \in DOMAIN order |-> d.testFiles[order[i]]])
        root(e) == SplitN2(e.Name, "_")[1]
    IN  [r \in {root(all[i]) : i \in DOMAIN all} |->
            <<CHOOSE e \in {all[i] : i \in DOMAIN all} : root(e) = r>>]

\* the map renderUsageTo builds, the test files being visited in `order`
groupExamples(d, order) ==
    LET all == Concat([i \in DOMAIN order |-> d.testFiles[order[i]]])
        root(e) == SplitN2(e.Name, "_")[1]
    IN  [r \in {root(all[i]) : i \in DOMAIN all} |->
            SelectSeq(all, LAMBDA e : root(e) = r)]

renderUsageTo(d, order) ==
    LET examples == groupExamples(d, order)
    IN  InSec("usage", <<Chunk("usage", <<>>, RenderStyle.UsageHeader \o <<"\n">>)>>)
        \o InSec("index", renderIndex(d))
        \o InSec("constants", renderConstantSectionTo(d.pkg.Consts))
        \o InSec("variables", renderVariableSectionTo(d.pkg.Vars))
        \o InSec("functions", renderFunctionSectionTo(d.pkg.Funcs, FALSE, examples))
        \o InSec("types", renderTypeSectionTo(d.pkg.Types, examples))

renderSignatureTo ==
    IF RenderStyle.IncludeSignature
    THEN InSec("signature",
               <<Chunk("signature", <<>>,
                       <<"\n", "\n", "--", "\n",
                         "**godocdown** http://github.com/avinoamr/godocdown",
                         "\n">>)>>)
    ELSE <<>>

\* bytes.TrimSpace over the whole buffer: white space is cut from both ends,
\* across chunks
RECURSIVE trimSpaceLeft(_)
trimSpaceLeft(chunks) ==
    IF chunks = <<>> THEN <<>>
    ELSE LET t == TrimLeft(Head(chunks).text, Space)
         IN  IF t = <<>> THEN trimSpaceLeft(Tail(chunks))
             ELSE <<[Head(chunks) EXCEPT !.text = t]>> \o Tail(chunks)
RECURSIVE trimSpaceRight(_)
trimSpaceRight(chunks) ==
    IF chunks = <<>> THEN <<>>
    ELSE LET n == Len(chunks)
             t == TrimRight(chunks[n].text, Space)
         IN  IF t = <<>> THEN trimSpaceRight(SubSeq(chunks, 1, n - 1))
             ELSE SubSeq(chunks, 1, n - 1) \o <<[chunks[n] EXCEPT !.text = t]>>
trimSpace(chunks) == trimSpaceRight(trimSpaceLeft(chunks))

EmitHeaderTo(d) == InSec("header", renderHeaderTo(d))
EmitSynopsisTo(d) == InSec("synopsis", renderSynopsisTo(d))
EmitUsageTo(d, order) == renderUsageTo(d, order)

EmitTo_UsageAlways(d, order) ==
    trimSpace(EmitHeaderTo(d) \o EmitSynopsisTo(d) \o EmitUsageTo(d, order))

EmitTo(d, order) ==
    trimSpace(EmitHeaderTo(d)
              \o EmitSynopsisTo(d)
              \o (IF ~d.IsCommand THEN EmitUsageTo(d, order) ELSE <<>>))

EmitSignatureTo(buf) == trimSpace(buf \o renderSignatureTo)

\* a chunk whose text holds a panic: the call that wrote it never returned
Panics(chunks) == \E i \in DOMAIN chunks : Contains(chunks[i].text, Panic[1])

(***************************************************************************)
(* Values of the variables of main while it has not run.                   *)
(***************************************************************************)

mainVars == <<target, fallbackUsage, absPath, importPath, pkgSet, parsed,
              isCommand, name, pkg, testFiles, document, err, tplFiles, tpl,
              buffer, emitted, stdout, file, failure, exitCode>>

MainNotStarted ==
    /\ target = "" /\ fallbackUsage = FALSE
    /\ absPath = <<>> /\ importPath = <<>>
    /\ pkgSet = {} /\ parsed = {}
    /\ isCommand = FALSE /\ name = "" /\ pkg = Nil /\ testFiles = NoTestFiles
    /\ document = Nil /\ err = NoError
    /\ tplFiles = {} /\ tpl = NoTemplate
    /\ buffer = <<>> /\ emitted = "" /\ stdout = <<>> /\ file = NoFile
    /\ failure = {} /\ exitCode = Running

(***************************************************************************)
(* Heading detection: main sets RenderStyle.SynopsisHeading from -heading, *)
(* then headifySynopsis is applied to a synopsis text.                     *)
(***************************************************************************)
HeadingAlphabet == {"A", "a", " ", "\t", ":", "\n"}
HeadingFlags == {"1Word", "TitleCase", "Title", "TitleCase1Word", "", "-", "other"}

InitHeading ==
    /\ pc = "heading"
    /\ flags = DefaultFlags
    /\ RenderStyle = DefaultStyle
    /\ arg \in SeqsUpTo(HeadingAlphabet, MaxLen)
    /\ ret = <<>>
    /\ MainNotStarted

ParseHeading ==
    /\ pc = "heading"
    /\ \E h \in HeadingFlags :
          /\ flags' = [flags EXCEPT !.heading = h]
          /\ RenderStyle' = [RenderStyle EXCEPT
                                !.SynopsisHeading = headingSwitch(h, @)]
    /\ pc' = "synopsis"
    /\ UNCHANGED <<arg, ret, mainVars>>

CallHeadifySynopsis ==
    /\ pc = "synopsis"
    /\ ret' = headifySynopsis(arg)
    /\ pc' = "synopsis_done"
    /\ UNCHANGED <<flags, RenderStyle, arg, mainVars>>

NextHeading == ParseHeading \/ CallHeadifySynopsis

SpecHeading == InitHeading /\ [][NextHeading]_vars

\* The lines of a text and their concatenation with "\n".
RECURSIVE Lines(_)
Lines(s) ==
    IF ~Contains(s, "\n") THEN <<s>>
    ELSE LET i == Min({j \in DOMAIN s : s[j] = "\n"})
         IN  <<SubSeq(s, 1, i - 1)>> \o Lines(SubSeq(s, i + 1, Len(s)))

RECURSIVE JoinLines(_)
JoinLines(ls) ==
    IF Len(ls) = 1 THEN ls[1] ELSE ls[1] \o <<"\n">> \o JoinLines(Tail(ls))

\* A line made of words separated by blanks, with no blank at either end.
IsTitleLine(line) ==
    /\ line # <<>>
    /\ \A i \in DOMAIN line : line[i] \in WordChar \cup Blank
    /\ line[1] \notin Blank
    /\ line[Len(line)] \notin Blank
WordStarts(line) ==
    {i \in DOMAIN line : line[i] \notin Blank /\ (i = 1 \/ line[i - 1] \in Blank)}
IsOneWordLine(line) == line # <<>> /\ \A i \in DOMAIN line : line[i] \in WordChar
IsTitleCaseLine(line) ==
    IsTitleLine(line) /\ \A i \in WordStarts(line) : line[i] \in Upper

LineIsHeading(heading, line) ==
    CASE heading = "1Word" -> IsOneWordLine(line)
      [] heading = "TitleCase" -> IsTitleCaseLine(line)
      [] heading = "Title" -> IsTitleLine(line)
      [] heading = "TitleCase1Word" -> IsOneWordLine(line) \/ IsTitleCaseLine(line)
      [] OTHER -> FALSE

MarkedLines(heading, text) ==
    LET ls == Lines(text)
    IN  JoinLines([i \in DOMAIN ls |->
                     IF LineIsHeading(heading, ls[i])
                     THEN <<"#", "#", "#", "#", " ">> \o ls[i]
                     ELSE ls[i]])

\* C9: under 1Word, TitleCase, Title and TitleCase1Word, headifySynopsis puts
\* one marker and one space before exactly the lines that match the active
\* pattern as a whole and leaves every other line as it is; with the
\* strategy disabled ("" or "-") the text comes back unchanged.
C9_HeadingWholeLine ==
    (pc = "synopsis_done" /\ flags.heading # "other")
        => ret = MarkedLines(flags.heading, arg)

C9_Witness ==
    /\ pc = "synopsis_done"
    /\ flags.heading = "TitleCase"
    /\ arg = <<"A", ":", "\n", "A">>
    /\ ret = <<"A", ":", "\n", "#", "#", "#", "#", " ", "A">>

(***************************************************************************)
(* exampleNames applied to an example name.                                *)
(***************************************************************************)
NameAlphabet == {"F", "_", "b"}

InitExampleNames ==
    /\ pc = "exampleNames"
    /\ flags = DefaultFlags
    /\ RenderStyle = DefaultStyle
    /\ arg \in SeqsUpTo(NameAlphabet, MaxName)
    /\ ret = <<>>
    /\ MainNotStarted

CallExampleNames ==
    /\ pc = "exampleNames"
    /\ ret' = exampleNames(arg)
    /\ pc' = "exampleNames_done"
    /\ UNCHANGED <<flags, RenderStyle, arg, mainVars>>

NextExampleNames == CallExampleNames

SpecExampleNames == InitExampleNames /\ [][NextExampleNames]_vars

FirstUnderscore(n) == Min({i \in DOMAIN n : n[i] = "_"})
Owner(n) == SubSeq(n, 1, FirstUnderscore(n) - 1)
RestSpaced(n) ==
    LET rest == SubSeq(n, FirstUnderscore(n) + 1, Len(n))
    IN  [i \in DOMAIN rest |-> IF rest[i] = "_" THEN " " ELSE rest[i]]

\* C10 as stated: a name without underscore gives (name, ""); a name
\* Owner_rest gives Owner and the qualifier "(" + rest with spaces + ")".
C10_QualifierParenthesized ==
    pc = "exampleNames_done" =>
        IF Contains(arg, "_")
        THEN ret = [base |-> Owner(arg), sub |-> <<"(">> \o RestSpaced(arg) \o <<")">>]
        ELSE ret = [base |-> arg, sub |-> <<>>]

\* C10 amended: the qualifier starts with a space, " (" + rest with every
\* underscore replaced by a space + ")".
C10_QualifierSpaceParenthesized ==
    pc = "exampleNames_done" =>
        IF Contains(arg, "_")
        THEN ret = [base |-> Owner(arg),
                    sub |-> <<" ", "(">> \o RestSpaced(arg) \o <<")">>]
        ELSE ret = [base |-> arg, sub |-> <<>>]

C10_Witness ==
    /\ pc = "exampleNames_done"
    /\ arg = <<"F", "_", "b", "_">>
    /\ ret = [base |-> <<"F">>, sub |-> <<" ", "(", "b", " ", ")">>]


(***************************************************************************)
(* main and loadDocument.                                                  *)
(***************************************************************************)
templateNameList ==
    <<".godocdown.markdown", ".godocdown.md", ".godocdown.template", ".godocdown.tmpl">>

TemplateBodies ==
    { <<"Emit">>, <<"EmitHeader", "text", "EmitSynopsis", "EmitUsage">> }

ImportFiles == { <<" ", "q", " ", "\n", "r", "\n">> }

\* loadDocument, line 422: the first line of .godocdown.import, trimmed
importOverride(read) == TrimSpace(SplitN2(read, "\n")[1])

Cwd == <<"work">>
ModName == <<"m">>

\* filepath.Join(cwd, target) for a relative target
JoinPath(dir, rel) == IF rel = "." THEN dir ELSE dir \o <<rel>>
\* filepath.Join(modName, relPath), with forward slashes
JoinImport(mod, rel) == IF rel = "." THEN mod ELSE mod \o <<"/", rel>>
\* the file part of filepath.Split(absPath)
BaseName(path) == path[Len(path)]

Perms(S) ==
    {s \in [1..Cardinality(S) -> S] : \A i, j \in DOMAIN s : i # j => s[i] # s[j]}

\* byte order of the characters the names are made of
AsciiOrder ==
    <<"-", "0", "1", "2", "3", "4", "5", "6", "7", "8", "9",
      "A", "B", "C", "D", "E", "F", "G", "H", "I", "J", "K", "L", "M",
      "N", "O", "P", "Q", "R", "S", "T", "U", "V", "W", "X", "Y", "Z", "_",
      "a", "b", "c", "d", "e", "f", "g", "h", "i", "j", "k", "l", "m",
      "n", "o", "p", "q", "r", "s", "t", "u", "v", "w", "x", "y", "z">>
Byte(c) == CHOOSE i \in DOMAIN AsciiOrder : AsciiOrder[i] = c

\* a < b on strings
RECURSIVE Less(_, _)
Less(a, b) ==
    IF b = <<>> THEN FALSE
    ELSE IF a = <<>> THEN TRUE
    ELSE IF Head(a) # Head(b) THEN Byte(Head(a)) < Byte(Head(b))
    ELSE Less(Tail(a), Tail(b))

\* sort.Sort(exs) with examples.Less
RECURSIVE sortExamples(_)
sortExamples(S) ==
    IF S = {} THEN <<>>
    ELSE LET m == CHOOSE e \in S : \A o \in S : ~Less(o.Name, e.Name)
         IN  <<m>> \o sortExamples(S \ {m})

Init ==
    /\ pc = "start"
    /\ flags = DefaultFlags
    /\ RenderStyle = DefaultStyle
    /\ MainNotStarted
    /\ arg = <<>>
    /\ ret = <<>>

\* main, lines 655-676.  flag.Parse fixes every flag for the run; the model
\* draws here the flags that are read from the start on (-signature, -plain)
\* and draws each other flag at the place where main first reads it, which
\* gives the same runs.  -heading keeps its default here; SpecHeading goes
\* through its values.
ParseFlags ==
    /\ pc = "start"
    /\ \E t \in {"", "p"}, sig, plain \in BOOLEAN :
          /\ flags' = [flags EXCEPT !.signature = sig, !.plain = plain]
          /\ fallbackUsage' = (t = "")
          /\ target' = IF t = "" THEN "." ELSE t
          /\ RenderStyle' = [RenderStyle EXCEPT
                !.IncludeSignature = sig,
                !.SynopsisHeading = headingSwitch(flags.heading, @)]
    /\ pc' = "load"
    /\ UNCHANGED <<absPath, importPath, pkgSet, parsed, isCommand, name, pkg,
                   testFiles, document, err, tplFiles, tpl, buffer, emitted,
                   stdout, file, failure, exitCode, arg, ret>>

\* loadDocument, lines 402-430: buildImport, parser.ParseDir, the
\* .godocdown.import file, and the locals of the selection block
LoadDocumentOpen ==
    /\ pc = "load"
    /\ \/ \* go.mod cannot be read or parsed
          /\ err' = "ManifestError"
          /\ document' = Nil
          /\ pc' = "loaded"
          /\ UNCHANGED <<absPath, importPath, pkgSet, parsed>>
       \/ \* a source file does not parse
          /\ err' = "ParseError"
          /\ document' = Nil
          /\ absPath' = JoinPath(Cwd, target)
          /\ pc' = "loaded"
          /\ UNCHANGED <<importPath, pkgSet, parsed>>
       \/ \E S \in SUBSET PkgNames :
          /\ Cardinality(S) <= MaxPkgs
          /\ absPath' = JoinPath(Cwd, target)
          /\ parsed' = S
          /\ pkgSet' = S
          /\ \/ importPath' = JoinImport(ModName, target)
             \/ \E read \in ImportFiles :
                   importPath' = importOverride(read)
          /\ pc' = "select"
          /\ UNCHANGED <<err, document>>
    /\ isCommand' = FALSE
    /\ name' = ""
    /\ pkg' = Nil
    /\ testFiles' = NoTestFiles
    /\ UNCHANGED <<flags, RenderStyle, target, fallbackUsage, tplFiles, tpl,
                   buffer, emitted, stdout, file, failure, exitCode, arg, ret>>

selectPackage_MainUnlessCommand(loc, n, abs) ==
    LET tmpPkg == DocPackage(n)
        astFiles == TestFilesOf(n)
    IN  IF tmpPkg.Name = "main" /\ loc.isCommand
        THEN loc
        ELSE IF tmpPkg.Name \in {"main", "documentation"}
        THEN [loc EXCEPT !.name = BaseName(abs), !.isCommand = TRUE, !.pkg = tmpPkg]
        ELSE [loc EXCEPT !.name = tmpPkg.Name, !.pkg = tmpPkg, !.testFiles = astFiles]

\* the body of the loop over pkgSet for the package n the map iteration
\* gives: the locals of the selection block after it, from those before it
selectPackage(loc, n, abs) ==
    LET tmpPkg == DocPackage(n)
        astFiles == TestFilesOf(n)
    IN  IF tmpPkg.Name = "main" /\ (loc.isCommand \/ loc.name # "")
        THEN loc
        ELSE IF tmpPkg.Name \in {"main", "documentation"}
        THEN [loc EXCEPT !.name = BaseName(abs), !.isCommand = TRUE, !.pkg = tmpPkg]
        ELSE [loc EXCEPT !.name = tmpPkg.Name, !.pkg = tmpPkg, !.testFiles = astFiles]

Locals == [isCommand |-> isCommand, name |-> name, pkg |-> pkg, testFiles |-> testFiles]

\* loadDocument, lines 433-467: one iteration of the loop; Go visits the
\* packages of the map in any order
SelectPackage ==
    /\ pc = "select"
    /\ \E n \in pkgSet :
          LET loc == selectPackage(Locals, n, absPath)
          IN  /\ isCommand' = loc.isCommand
              /\ name' = loc.name
              /\ pkg' = loc.pkg
              /\ testFiles' = loc.testFiles
              /\ pkgSet' = pkgSet \ {n}
    /\ UNCHANGED <<pc, flags, RenderStyle, target, fallbackUsage, absPath,
                   importPath, parsed, document, err, tplFiles, tpl, buffer, emitted,
                   stdout, file, failure, exitCode, arg, ret>>

\* loadDocument, lines 469-490
LoadDocumentReturn ==
    /\ pc = "select"
    /\ pkgSet = {}
    /\ document' =
          IF pkg # Nil
          THEN [Name |-> name, pkg |-> pkg, absPath |-> absPath,
                testFiles |-> testFiles, IsCommand |-> isCommand,
                ImportPath |-> importPath,
                Examples |-> sortExamples(
                    UNION {{testFiles[f][i] : i \in DOMAIN testFiles[f]} :
                           f \in DOMAIN testFiles})]
          ELSE Nil
    /\ pc' = "loaded"
    \* the locals of loadDocument end with the call
    /\ absPath' = <<>> /\ importPath' = <<>> /\ parsed' = {}
    /\ isCommand' = FALSE /\ name' = "" /\ pkg' = Nil /\ testFiles' = NoTestFiles
    /\ UNCHANGED <<flags, RenderStyle, target, fallbackUsage, pkgSet,
                   err, tplFiles, tpl, buffer, emitted, stdout, file, failure, exitCode,
                   arg, ret>>

\* main, lines 693-699
stripFuncs_TopLevelOnly(p) == [p EXCEPT !.Funcs = <<>>]

stripFuncs(p) ==
    [p EXCEPT !.Funcs = <<>>,
              !.Types = [i \in DOMAIN @ |->
                           [@[i] EXCEPT !.Funcs = <<>>, !.Methods = <<>>]]]

exitNotFound_AlwaysOne(fallback) == 1

\* main, lines 684-690
exitNotFound(fallback) == IF fallback THEN 2 ELSE 1

\* main, lines 678-699
CheckDocument ==
    /\ pc = "loaded"
    /\ IF document = Nil
       THEN /\ exitCode' = exitNotFound(fallbackUsage)
            /\ failure' = failure \cup {IF err # NoError THEN err ELSE "NotFound"}
            /\ pc' = "done"
            /\ UNCHANGED <<document, flags>>
       ELSE /\ \E noFuncs \in BOOLEAN :
                  /\ flags' = [flags EXCEPT !.noFuncs = noFuncs]
                  /\ document' = IF noFuncs
                                 THEN [document EXCEPT !.pkg = stripFuncs(@)]
                                 ELSE document
            /\ pc' = "template"
            /\ UNCHANGED <<exitCode, failure>>
    /\ UNCHANGED <<RenderStyle, target, fallbackUsage, absPath,
                   importPath, pkgSet, parsed, isCommand, name, pkg, testFiles,
                   err, tplFiles, tpl, buffer, emitted, stdout, file, arg, ret>>

findTemplate_Last(present) ==
    LET found == {i \in DOMAIN templateNameList : templateNameList[i] \in present}
    IN  IF found = {} THEN "" ELSE templateNameList[Max(found)]

\* findTemplate: the first name of templateNameList that os.Stat finds
findTemplate(present) ==
    LET found == {i \in DOMAIN templateNameList : templateNameList[i] \in present}
    IN  IF found = {} THEN "" ELSE templateNameList[Min(found)]

TemplateNames == {templateNameList[i] : i \in DOMAIN templateNameList}

\* loadTemplate, lines 594-605: the path of the template to parse, "" for
\* none; findTemplate is called, and the directory looked at, only when
\* neither -no-template nor -template decides
probesDirectory(noTemplate, template) == ~noTemplate /\ template = ""

templatePath(noTemplate, template, present) ==
    IF noTemplate THEN ""
    ELSE IF template # "" THEN template
    ELSE findTemplate(present)

\* main, line 701, and loadTemplate
LoadTemplate ==
    /\ pc = "template"
    /\ \E noTemplate \in BOOLEAN, template \in {"", "t.tmpl"} :
       \E present \in IF probesDirectory(noTemplate, template)
                      THEN SUBSET TemplateNames ELSE {{}} :
          /\ flags' = [flags EXCEPT !.noTemplate = noTemplate, !.template = template]
          /\ tplFiles' = present
          /\ IF templatePath(noTemplate, template, present) = ""
             THEN /\ tpl' = NoTemplate
                  /\ pc' = "render"
                  /\ UNCHANGED <<exitCode, failure>>
             ELSE \/ \* template.ParseFiles fails
                     /\ tpl' = NoTemplate
                     /\ exitCode' = 1
                     /\ failure' = failure \cup {"TemplateParseError"}
                     /\ pc' = "done"
                  \/ /\ tpl' = templatePath(noTemplate, template, present)
                     /\ pc' = "render"
                     /\ UNCHANGED <<exitCode, failure>>
    /\ UNCHANGED <<RenderStyle, target, fallbackUsage, absPath,
                   importPath, pkgSet, parsed, isCommand, name, pkg, testFiles,
                   document, err, buffer, emitted, stdout, file, arg, ret>>

\* what one action of a template writes
execAction(a, d, order) ==
    CASE a = "Emit" -> EmitTo(d, order)
      [] a = "EmitHeader" -> trimSpace(EmitHeaderTo(d))
      [] a = "EmitSynopsis" -> trimSpace(EmitSynopsisTo(d))
      [] a = "EmitUsage" -> trimSpace(EmitUsageTo(d, order))
      [] OTHER -> InSec("template", <<Chunk("text", <<>>, <<"text", "\n">>)>>)

\* main, lines 702-735: a rendering that fails or panics ends the run with
\* `code`; otherwise what it wrote, and the signature, are in the buffer
rendered(out, failed, code, why) ==
    IF failed \/ Panics(out)
    THEN /\ exitCode' = code
         /\ failure' = failure \cup {why}
         /\ pc' = "done"
         /\ UNCHANGED buffer
    ELSE /\ buffer' = EmitSignatureTo(out)
         /\ pc' = "write"
         /\ UNCHANGED <<exitCode, failure>>

\* main, lines 702-706: no template, the built-in renderer
RenderBuiltin ==
    /\ pc = "render"
    /\ tpl = NoTemplate
    /\ \E order \in Perms(DOMAIN document.testFiles) :
          rendered(EmitTo(document, order), FALSE, 2, "Panic")
    /\ emitted' = "EmitTo"
    /\ UNCHANGED <<flags, RenderStyle, target, fallbackUsage, absPath,
                   importPath, pkgSet, parsed, isCommand, name, pkg, testFiles,
                   document, err, tplFiles, tpl, stdout, file, arg, ret>>

\* main, lines 724-731: the template is executed against the document; a
\* failing action, or one that panics, makes Execute return an error
RenderTemplate ==
    /\ pc = "render"
    /\ tpl # NoTemplate
    /\ \E body \in TemplateBodies, order \in Perms(DOMAIN document.testFiles),
          execOk \in BOOLEAN :
          rendered(Concat([i \in DOMAIN body |-> execAction(body[i], document, order)]),
                   ~execOk, 1, "TemplateExecError")
    /\ emitted' = "Execute"
    /\ UNCHANGED <<flags, RenderStyle, target, fallbackUsage, absPath,
                   importPath, pkgSet, parsed, isCommand, name, pkg, testFiles,
                   document, err, tplFiles, tpl, stdout, file, arg, ret>>

\* main, lines 738-749: the documentation goes to standard output or to the
\* -output file; the errors of os.Create and Fprintln are dropped
WriteOutput ==
    /\ pc = "write"
    /\ \E output \in {"", "-", "out.md"} :
       LET documentation == trimSpace(buffer)
       IN  /\ flags' = [flags EXCEPT !.output = output]
           /\ IF output = "" \/ output = "-"
              THEN /\ stdout' = documentation
                   /\ UNCHANGED <<file, failure>>
              ELSE \/ /\ file' = documentation
                      /\ UNCHANGED <<stdout, failure>>
                   \/ \* os.Create fails
                      /\ failure' = failure \cup {"OutputWriteError"}
                      /\ UNCHANGED <<stdout, file>>
                   \/ \* the write fails part of the way
                      /\ \E n \in 0..MaxPartial :
                            /\ n < Len(documentation)
                            /\ file' = SubSeq(documentation, 1, n)
                      /\ failure' = failure \cup {"OutputWriteError"}
                      /\ UNCHANGED stdout
    /\ exitCode' = 0
    /\ pc' = "done"
    /\ UNCHANGED <<RenderStyle, target, fallbackUsage, absPath,
                   importPath, pkgSet, parsed, isCommand, name, pkg, testFiles,
                   document, err, tplFiles, tpl, buffer, emitted, arg, ret>>

Next ==
    \/ ParseFlags
    \/ LoadDocumentOpen
    \/ SelectPackage
    \/ LoadDocumentReturn
    \/ CheckDocument
    \/ LoadTemplate
    \/ RenderBuiltin
    \/ RenderTemplate
    \/ WriteOutput

Spec == Init /\ [][Next]_vars


(***************************************************************************)
(* Package selection.                                                      *)
(***************************************************************************)
RECURSIVE selectInOrder(_, _, _)
selectInOrder(order, loc, abs) ==
    IF order = <<>> THEN loc
    ELSE selectInOrder(Tail(order), selectPackage(loc, Head(order), abs), abs)

NoSelection == [isCommand |-> FALSE, name |-> "", pkg |-> Nil, testFiles |-> NoTestFiles]

\* one fixed order of visiting a set of packages
FixedOrder(S) == CHOOSE order \in Perms(S) : TRUE

SelectionDone == pc = "select" /\ pkgSet = {}

\* C1: whatever the order in which the loop of loadDocument visited the
\* parsed packages, the selected package, the name and the command flag are
\* those that one fixed order of the same packages gives.
C1_SelectionDeterministic ==
    SelectionDone =>
        LET fixed == selectInOrder(FixedOrder(parsed), NoSelection, absPath)
        IN  /\ pkg = fixed.pkg
            /\ name = fixed.name
            /\ isCommand = fixed.isCommand

\* C2: the returned Document is a command exactly when its package is named
\* main or documentation; a command is named after the target directory,
\* any other document after its package.
C2_CommandIffMainOrDocumentation ==
    (pc = "loaded" /\ document # Nil) =>
        /\ document.IsCommand <=> document.pkg.Name \in {"main", "documentation"}
        /\ document.IsCommand => document.Name = BaseName(document.absPath)
        /\ ~document.IsCommand => document.Name = document.pkg.Name

(***************************************************************************)
(* Exit status and failures.                                               *)
(***************************************************************************)
\* C3: the exit status is 0 when a document was loaded and rendered, 1 when
\* a target was given and no document found or when the template failed to
\* parse or to execute, 2 when no target was given and no document found.
C3_ExitCodes ==
    pc = "done" =>
        /\ (document # Nil /\ buffer # <<>>) => exitCode = 0
        /\ (document = Nil /\ ~fallbackUsage) => exitCode = 1
        /\ (failure \cap {"TemplateParseError", "TemplateExecError"} # {})
              => exitCode = 1
        /\ (document = Nil /\ fallbackUsage) => exitCode = 2

C3_Witness ==
    /\ pc = "done" /\ document = Nil /\ fallbackUsage /\ exitCode = 2
    /\ failure = {"NotFound"}

NothingWritten == stdout = <<>> /\ file \in {NoFile, <<>>}

\* C4: each of ManifestError, ParseError, NotFound, TemplateParseError,
\* TemplateExecError and OutputWriteError ends the run with a non-zero exit
\* status and with nothing written to standard output or the output file.
C4_FailuresAbort ==
    (pc = "done" /\ failure \cap {"ManifestError", "ParseError", "NotFound",
                                  "TemplateParseError", "TemplateExecError",
                                  "OutputWriteError"} # {})
        => (exitCode # 0 /\ NothingWritten)

(***************************************************************************)
(* Template dispatch.                                                      *)
(***************************************************************************)
FirstPresent(present) ==
    IF ".godocdown.markdown" \in present THEN ".godocdown.markdown"
    ELSE IF ".godocdown.md" \in present THEN ".godocdown.md"
    ELSE IF ".godocdown.template" \in present THEN ".godocdown.template"
    ELSE IF ".godocdown.tmpl" \in present THEN ".godocdown.tmpl"
    ELSE NoTemplate

\* C5: with -no-template no template is used; otherwise the -template path
\* if it is not empty; otherwise the first of .godocdown.markdown,
\* .godocdown.md, .godocdown.template, .godocdown.tmpl present in the target
\* directory; and main fills the buffer with EmitTo exactly when no template
\* was selected.
C5_TemplateDispatch ==
    (pc \in {"render", "write", "done"} /\ document # Nil
                                         /\ "TemplateParseError" \notin failure) =>
        /\ tpl = IF flags.noTemplate THEN NoTemplate
                 ELSE IF flags.template # "" THEN flags.template
                 ELSE FirstPresent(tplFiles)
        /\ emitted # "" => (emitted = "EmitTo" <=> tpl = NoTemplate)

C5_Witness ==
    /\ pc = "write"
    /\ ~flags.noTemplate /\ flags.template = ""
    /\ tplFiles = {".godocdown.md", ".godocdown.tmpl"}
    /\ tpl = ".godocdown.md"
    /\ emitted = "Execute"

(***************************************************************************)
(* The built-in renderer.                                                  *)
(***************************************************************************)
SectionOrder ==
    <<"header", "synopsis", "usage", "index", "constants", "variables",
      "functions", "types", "signature">>
SectionNames == {SectionOrder[k] : k \in DOMAIN SectionOrder}
SectionRank(sec) == CHOOSE i \in DOMAIN SectionOrder : SectionOrder[i] = sec
UsageSections == {"usage", "index", "constants", "variables", "functions", "types"}
SectionsOf(buf) == {buf[i].sec : i \in DOMAIN buf}

BuiltinRendered == pc = "write" /\ emitted = "EmitTo"

\* C6: the built-in renderer writes header, synopsis, usage and the optional
\* signature in this order; EmitTo writes the usage only for a document
\* that is not a command; within the usage come the index, the constants,
\* the variables, the functions and the types, none before one that
\* precedes it in this order.
C6_SectionOrder ==
    BuiltinRendered =>
        /\ \A i \in DOMAIN buffer : buffer[i].sec \in SectionNames
        /\ \A i, j \in DOMAIN buffer :
              i < j => SectionRank(buffer[i].sec) <= SectionRank(buffer[j].sec)
        /\ buffer[1].sec = "header"
        /\ "synopsis" \in SectionsOf(buffer)
        /\ ("usage" \in SectionsOf(buffer)) <=> ~document.IsCommand
        /\ document.IsCommand => SectionsOf(buffer) \cap UsageSections = {}
        /\ ("signature" \in SectionsOf(buffer)) <=> flags.signature

C6_Witness ==
    /\ BuiltinRendered
    /\ ~document.IsCommand
    /\ SectionsOf(buffer) = SectionNames

KindCount(buf, kind) == Cardinality({i \in DOMAIN buf : buf[i].kind = kind})

RECURSIVE SumLen(_, _)
SumLen(types, field) ==
    IF types = <<>> THEN 0
    ELSE Len(IF field = "Consts" THEN Head(types).Consts ELSE Head(types).Vars)
           + SumLen(Tail(types), field)

\* C7: with -no-funcs the output has no header line of a function or of a
\* method; the constants, the variables, the types and the constants and
\* variables of each type are those of the package as loaded, and the
\* built-in renderer still writes each of them.
C7_NoFuncs ==
    (pc = "write" /\ flags.noFuncs) =>
        LET loaded == DocPackage(document.pkg.Name)
            now == document.pkg
        IN  /\ KindCount(buffer, "func") = 0
            /\ now.Consts = loaded.Consts
            /\ now.Vars = loaded.Vars
            /\ Len(now.Types) = Len(loaded.Types)
            /\ \A i \in DOMAIN now.Types :
                  /\ now.Types[i].Name = loaded.Types[i].Name
                  /\ now.Types[i].Decl = loaded.Types[i].Decl
                  /\ now.Types[i].Consts = loaded.Types[i].Consts
                  /\ now.Types[i].Vars = loaded.Types[i].Vars
            /\ (emitted = "EmitTo" /\ ~document.IsCommand) =>
                  /\ KindCount(buffer, "const")
                        = Len(loaded.Consts) + SumLen(loaded.Types, "Consts")
                  /\ KindCount(buffer, "var")
                        = Len(loaded.Vars) + SumLen(loaded.Types, "Vars")
                  /\ KindCount(buffer, "type") = Len(loaded.Types)

C7_Witness ==
    /\ BuiltinRendered /\ flags.noFuncs
    /\ document.pkg.Name = "foo" /\ ~document.IsCommand
    /\ DocPackage("foo").Types[1].Methods # <<>>
    /\ KindCount(buffer, "type") = 1
    /\ KindCount(buffer, "const") = 2

HasFence(buf) == \E i \in DOMAIN buf : Contains(buf[i].text, Fence)

\* C8: the built-in renderer under -plain writes no fence of three
\* backquotes anywhere, examples included; without -plain every declaration
\* is written between fences.
C8_PlainNoFence ==
    BuiltinRendered =>
        IF flags.plain THEN ~HasFence(buffer)
        ELSE \A i \in DOMAIN buffer :
                buffer[i].kind \in {"const", "var", "func", "type"}
                    => Contains(buffer[i].text, Fence)

(***************************************************************************)
(* Examples.                                                               *)
(***************************************************************************)
\* the examples of a map of test files
ExamplesOf(files) ==
    UNION {{files[f][i] : i \in DOMAIN files[f]} : f \in DOMAIN files}
\* the positions of the lists of a map of lists
Slots(m) == {<<k, i>> \in (DOMAIN m) \X (UNION {DOMAIN m[k] : k \in DOMAIN m}) :
                i \in DOMAIN m[k]}
ExampleCount(files) == Cardinality(Slots(files))
Root(n) == SplitN2(n, "_")[1]

\* the symbols whose examples the renderer looks up: the functions and the
\* types of the package and the functions of each type
OwnersOf(p) ==
    {p.Funcs[i].Name : i \in DOMAIN p.Funcs}
    \cup {p.Types[i].Name : i \in DOMAIN p.Types}
    \cup UNION {{p.Types[i].Funcs[j].Name : j \in DOMAIN p.Types[i].Funcs} :
                i \in DOMAIN p.Types}
\* every symbol rendered with a signature line
SymbolsOf(p) ==
    OwnersOf(p)
    \cup UNION {{p.Types[i].Methods[j].Name : j \in DOMAIN p.Types[i].Methods} :
                i \in DOMAIN p.Types}

GroupedAt(groups, e) ==
    {g \in Slots(groups) : groups[g[1]][g[2]] = e}
GroupedCount(groups) == Cardinality(Slots(groups))
ExampleChunkNames(buf) == {buf[i].name : i \in {j \in DOMAIN buf : buf[j].kind = "example"}}

UsageRendered == BuiltinRendered /\ ~document.IsCommand

\* C11: in whatever order renderUsageTo visits the retained test files, every
\* example of those files is in exactly one group of its map, the group of
\* the part of its name before the first underscore, also when no symbol
\* has that name; a symbol without example has the empty list; the examples
\* written are those whose owner is a symbol looked up, and the rendering
\* ends without panic.
C11_ExamplePartition ==
    UsageRendered =>
        /\ \A order \in Perms(DOMAIN document.testFiles) :
              /\ \A e \in ExamplesOf(document.testFiles) :
                    /\ Cardinality(GroupedAt(groupExamples(document, order), e)) = 1
                    /\ \A g \in GroupedAt(groupExamples(document, order), e) :
                          g[1] = Root(e.Name)
              /\ GroupedCount(groupExamples(document, order))
                    = ExampleCount(document.testFiles)
              /\ \A sym \in SymbolsOf(document.pkg) :
                    sym \notin {Root(e.Name) : e \in ExamplesOf(document.testFiles)}
                        => Lookup(groupExamples(document, order), sym) = <<>>
        /\ ExampleChunkNames(buffer)
              = {e.Name : e \in {x \in ExamplesOf(document.testFiles) :
                                    Root(x.Name) \in OwnersOf(document.pkg)}}
        /\ "Panic" \notin failure

C11_Witness ==
    /\ UsageRendered /\ ~flags.noFuncs
    /\ \E e \in ExamplesOf(document.testFiles) :
          /\ Root(e.Name) \notin SymbolsOf(document.pkg)
          /\ e.Name \notin ExampleChunkNames(buffer)
    /\ \E sym \in SymbolsOf(document.pkg) :
          sym \notin {Root(e.Name) : e \in ExamplesOf(document.testFiles)}
    /\ ExampleChunkNames(buffer) # {}

(***************************************************************************)
(* The import path: buildImport computes it from the module manifest, then *)
(* loadDocument reads the file .godocdown.import of the target directory.  *)
(* arg is what ioutil.ReadFile gives, NoFile when the file does not exist. *)
(***************************************************************************)
ImportAlphabet == {"q", " ", "\n"}

InitImport ==
    /\ pc = "import"
    /\ flags = DefaultFlags
    /\ RenderStyle = DefaultStyle
    /\ arg \in {NoFile} \cup SeqsUpTo(ImportAlphabet, MaxLen)
    /\ ret = <<>>
    /\ MainNotStarted

\* loadDocument, line 404, and buildImport for a relative target
BuildImport ==
    /\ pc = "import"
    /\ \E t \in {".", "p"} :
          /\ target' = t
          /\ absPath' = JoinPath(Cwd, t)
          /\ importPath' = JoinImport(ModName, t)
    /\ pc' = "import_file"
    /\ UNCHANGED <<flags, RenderStyle, fallbackUsage, pkgSet, parsed, isCommand,
                   name, pkg, testFiles, document, err, tplFiles, tpl, buffer,
                   emitted, stdout, file, failure, exitCode, arg, ret>>

\* loadDocument, lines 421-423
ReadImportFile ==
    /\ pc = "import_file"
    /\ importPath' = IF arg = NoFile THEN importPath ELSE importOverride(arg)
    /\ pc' = "import_done"
    /\ UNCHANGED <<flags, RenderStyle, target, fallbackUsage, absPath, pkgSet,
                   parsed, isCommand, name, pkg, testFiles, document, err,
                   tplFiles, tpl, buffer, emitted, stdout, file, failure,
                   exitCode, arg, ret>>

NextImport == BuildImport \/ ReadImportFile

SpecImport == InitImport /\ [][NextImport]_vars

\* the lines of a text that are not blank
NonBlankLines(text) == SelectSeq(Lines(text), LAMBDA l : TrimSpace(l) # <<>>)

\* C12: with a file .godocdown.import the import path is the first line of
\* the file that is not blank, trimmed, also when blank lines come before
\* it; without the file it is the path computed from the module manifest.
C12_FirstNonBlankLine ==
    pc = "import_done" =>
        IF arg = NoFile THEN importPath = JoinImport(ModName, target)
        ELSE NonBlankLines(arg) # <<>>
                => importPath = TrimSpace(NonBlankLines(arg)[1])

(***************************************************************************)
(* Package selection, continued.                                           *)
(***************************************************************************)
\* the step of the loop that visits main after another package
VisitsMainLater == pc = "select" /\ pkgSet \ pkgSet' = {"main"} /\ parsed # pkgSet

\* C13: a step of the selection loop that visits main after any other
\* package (documentation, or a package of another name) changes nothing of
\* the selection; when the packages are documentation and main the loop
\* ends with documentation selected, whichever was visited first.
C13_MainIgnored ==
    /\ [][VisitsMainLater => UNCHANGED <<isCommand, name, pkg, testFiles>>]_vars
    /\ []((SelectionDone /\ parsed = {"documentation", "main"})
              => (pkg # Nil /\ pkg.Name = "documentation"))

C13_Witness ==
    /\ SelectionDone
    /\ parsed = {"documentation", "main"}
    /\ pkg = DocPackage("documentation")
    /\ isCommand

(***************************************************************************)
(* The order of the examples.                                              *)
(***************************************************************************)
\* C14: the examples written under one owner come in ascending order of
\* their names, and the buffer is the one that any one order of visiting
\* the test files gives.
C14_ExamplesAscending ==
    UsageRendered =>
        /\ \A i, j \in DOMAIN buffer :
              (/\ i < j
               /\ buffer[i].kind = "example" /\ buffer[j].kind = "example"
               /\ Root(buffer[i].name) = Root(buffer[j].name))
                  => ~Less(buffer[j].name, buffer[i].name)
        /\ buffer = EmitSignatureTo(
                        EmitTo(document, FixedOrder(DOMAIN document.testFiles)))

(***************************************************************************)
(* Code blocks: indentCode and renderExample applied to a snippet, arg,    *)
(* under either value of -plain.                                           *)
(***************************************************************************)
CodeAlphabet == {"{", "}", "\n", "f"}

InitCode ==
    /\ pc = "code"
    /\ flags = DefaultFlags
    /\ RenderStyle = DefaultStyle
    /\ arg \in SeqsUpTo(CodeAlphabet, MaxLen)
    /\ ret = <<>>
    /\ MainNotStarted

\* main, flag.Parse: -plain
ParsePlain ==
    /\ pc = "code"
    /\ \E plain \in BOOLEAN : flags' = [flags EXCEPT !.plain = plain]
    /\ pc' = "code_call"
    /\ UNCHANGED <<RenderStyle, arg, ret, mainVars>>

CallIndentCode ==
    /\ pc = "code_call"
    /\ ret' = indentCode(arg)
    /\ pc' = "indentCode_done"
    /\ UNCHANGED <<flags, RenderStyle, arg, mainVars>>

\* renderExample for an example whose code prints as arg
CallRenderExample ==
    /\ pc = "code_call"
    /\ ret' = renderExample(Example(<<"F">>, arg, <<>>)).text
    /\ pc' = "renderExample_done"
    /\ UNCHANGED <<flags, RenderStyle, arg, mainVars>>

NextCode == ParsePlain \/ CallIndentCode \/ CallRenderExample

SpecCode == InitCode /\ [][NextCode]_vars

\* the positions of text where the sequence part begins
Occurrences(text, part) ==
    {i \in 1..(Len(text) - Len(part) + 1) : SubSeq(text, i, i + Len(part) - 1) = part}
FenceOpen == <<Fence, "go", "\n">>
FenceClose == <<"\n", Fence>>

\* C15: without -plain, indentCode and renderExample return for every
\* snippet, without a panic, a text with a block that opens with the fence
\* line of go code and closes with a fence line.
C15_FencingNeverFails ==
    (pc \in {"indentCode_done", "renderExample_done"} /\ ~flags.plain) =>
        /\ ~Contains(ret, Panic[1])
        /\ \E i \in Occurrences(ret, FenceOpen) :
              \E j \in Occurrences(ret, FenceClose) : i + Len(FenceOpen) - 1 <= j
        /\ pc = "indentCode_done" =>
              /\ 1 \in Occurrences(ret, FenceOpen)
              /\ (Len(ret) - 1) \in Occurrences(ret, FenceClose)

(***************************************************************************)
(* The index of the usage section.                                         *)
(***************************************************************************)
\* what text holds between the first `open` and the first `close` after it
Between(text, open, close) ==
    IF ~Contains(text, open) THEN <<>>
    ELSE SplitN2(SplitN2(text, open)[2] \o <<close>>, close)[1]

LinkTarget(chunk) == Between(chunk.text, "](#", ")")
AnchorName(chunk) == Between(chunk.text, "<a name='", "'></a>")

IndexLinks(buf, kind) ==
    {i \in DOMAIN buf : buf[i].sec = "index" /\ buf[i].kind = kind}
Anchors(buf) ==
    {i \in DOMAIN buf : buf[i].sec \in {"functions", "types"}
                          /\ buf[i].kind \in {"func", "type"}}

\* C16: the index of a document that is not a command has one link to
\* #Name for each function and one for each type of the package, and each
\* link of the index has, in the function or type section after it, a
\* signature line with the anchor of that name.
C16_IndexLinksAnchored ==
    UsageRendered =>
        /\ \A k \in DOMAIN document.pkg.Funcs :
              Cardinality({i \in IndexLinks(buffer, "indexFunc") :
                              LinkTarget(buffer[i]) = document.pkg.Funcs[k].Name}) = 1
        /\ \A k \in DOMAIN document.pkg.Types :
              Cardinality({i \in IndexLinks(buffer, "indexType") :
                              LinkTarget(buffer[i]) = document.pkg.Types[k].Name}) = 1
        /\ \A i \in IndexLinks(buffer, "indexFunc") \cup IndexLinks(buffer, "indexType") :
              /\ LinkTarget(buffer[i]) # <<>>
              /\ \E j \in Anchors(buffer) :
                    i < j /\ AnchorName(buffer[j]) = LinkTarget(buffer[i])

C16_Witness ==
    /\ UsageRendered
    /\ document.pkg.Funcs # <<>> /\ document.pkg.Types # <<>>
    /\ Cardinality(IndexLinks(buffer, "indexFunc")) = 2
    /\ Cardinality(IndexLinks(buffer, "indexType")) = 1
    /\ \E j \in Anchors(buffer) : AnchorName(buffer[j]) = document.pkg.Types[1].Name

(***************************************************************************)
(* The test files of the returned Document.                                *)
(***************************************************************************)
\* C17: the Document loadDocument returns keeps the test files set aside
\* from the package it selected, and its Examples are the examples of
\* those files.
C17_RetainedTestFiles ==
    (pc = "loaded" /\ document # Nil) =>
        /\ document.testFiles = TestFilesOf(document.pkg.Name)
        /\ {document.Examples[i] : i \in DOMAIN document.Examples}
              = ExamplesOf(TestFilesOf(document.pkg.Name))

====
